---- MODULE Spec2Model ----
(***************************************************************************)
(* A model of the liblisp interpreter engine: the tagged cell heap and its *)
(* registry, the environments, the tree-walking evaluator with its special *)
(* forms, the primitive table and the mark/sweep collector, driven by the  *)
(* read-evaluate-print-collect loop of lisp_repl.                          *)
(***************************************************************************)
EXTENDS Integers, Sequences, FiniteSets, TLC

VARIABLES heap,      \* cell id -> cell record; ids are allocation order
          registry,  \* the heap registry: ids of the cells gc_calloc returned
          freed,     \* ids of the cells that have been released
          log,       \* diagnostics written to the logging stream by the last evaluation
          out,       \* cells written to the output stream by the last iteration
          trace,     \* what the last evaluation did, in order
          pc,        \* position of lisp_repl in its loop body
          form,      \* name of the expression last read
          x,         \* the cell lisp_repl holds: the parsed expression, then its value
          evalStart, \* number of cells that existed when the last evaluation started
          live,      \* cells the mark phase of the last lisp_clean left marked
          nforms,    \* expressions read so far
          io,        \* an io stream wrapper and the host handles (io.c)
          mem,       \* the allocation counter of the malloc wrappers (mem.c)
          tok        \* a token given to is_number, and the answer (util.c)

lispvars == <<heap, registry, freed, log, out, trace, pc, form, x, evalStart, live, nforms>>
libvars  == <<io, mem, tok>>
vars     == <<lispvars, libvars>>

(* The value of a state component that the part under study does not use. *)
Idle == "idle"

(* Bound: the number of expressions the input stream holds. *)
MaxForms == 2

(* Bound: the number of calls made on a stream or on the allocator. *)
MaxOps == 4

-----------------------------------------------------------------------------
(* io.c: a stream wrapper over a host FILE handle or over a string *)

EOF == -1
Handles == {"stdin", "stdout", "stderr", "file"}

(* The byte at C index i of a string whose bytes before the NUL are str. *)
ByteAt(str, i) == IF i < Len(str) THEN str[i + 1] ELSE 0

(* struct io after memset(0) and the assignments of io_file_in, io_file_out,
   io_string_in or io_string_out, with the host side it is wrapped around:
   which handles are open, how often each was flushed, the bytes the wrapped
   file will deliver and those it has received.  op, arg, ret and wrote
   remember the last call, its argument, its return value and the number of
   bytes it wrote; exited is a call of exit(). *)
Wrap(type, file, str) ==
  [type |-> type, file |-> file, string |-> str, position |-> 0, max |-> Len(str),
   ungetc |-> FALSE, c |-> 0,
   open |-> [h \in Handles |-> TRUE], flushes |-> [h \in Handles |-> 0],
   src |-> <<97, 98>>, sink |-> <<>>,
   op |-> "", arg |-> <<>>, ret |-> 0, wrote |-> 0, exited |-> FALSE, n |-> 0]

(* NULLCHK(X, E): report and exit. *)
NULLCHK(s, op) == [s EXCEPT !.exited = TRUE, !.op = op, !.n = @ + 1]

(* A call of op with argument arg returned ret, leaving the stream as s. *)
Returned(s, op, arg, ret) == [s EXCEPT !.op = op, !.arg = arg, !.ret = ret, !.n = @ + 1]

(* io_file_close(ioc) *)
io_file_close ==
  /\ ~io.exited /\ io.n < MaxOps
  /\ io' = IF io.type \in {"IO_FILE_IN_E", "IO_FILE_OUT_E"} /\ io.file # "NULL"
            THEN Returned([io EXCEPT !.flushes[io.file] = @ + 1,
                                     !.open[io.file] = io.file \in {"stdin", "stdout"},
                                     !.file = "NULL"],
                          "close", <<>>, 0)
            ELSE Returned(io, "close", <<>>, 0)
  /\ UNCHANGED <<lispvars, mem, tok>>

(* io_getc(i, e) *)
io_getc ==
  /\ ~io.exited /\ io.n < MaxOps
  /\ io' = IF io.file = "NULL" THEN NULLCHK(io, "getc")
            ELSE IF io.ungetc THEN Returned([io EXCEPT !.ungetc = FALSE], "getc", <<>>, io.c)
            ELSE IF io.type = "IO_FILE_IN_E"
                 THEN (IF io.src = <<>> THEN Returned(io, "getc", <<>>, EOF)
                       ELSE Returned([io EXCEPT !.src = Tail(@)], "getc", <<>>, Head(io.src)))
            ELSE IF io.type = "IO_STRING_IN_E"
                 THEN (IF ByteAt(io.string, io.position) # 0
                       THEN Returned([io EXCEPT !.position = @ + 1], "getc", <<>>,
                                     ByteAt(io.string, io.position))
                       ELSE Returned(io, "getc", <<>>, EOF))
            ELSE NULLCHK(io, "getc")
  /\ UNCHANGED <<lispvars, mem, tok>>

(* An ungetc that stores the byte whether or not one is pending. *)
io_ungetc_overwrite(c) ==
  /\ ~io.exited /\ io.n < MaxOps
  /\ io' = Returned([io EXCEPT !.c = c, !.ungetc = TRUE], "ungetc", <<c>>, c)
  /\ UNCHANGED <<lispvars, mem, tok>>

(* io_ungetc(c, i, e) *)
io_ungetc(c) ==
  /\ ~io.exited /\ io.n < MaxOps
  /\ io' = IF io.file = "NULL" THEN NULLCHK(io, "ungetc")
            ELSE IF io.ungetc THEN Returned(io, "ungetc", <<c>>, EOF)
            ELSE Returned([io EXCEPT !.c = c, !.ungetc = TRUE], "ungetc", <<c>>, c)
  /\ UNCHANGED <<lispvars, mem, tok>>

(* io_putc(c, o, e): the stream after the call, the value returned in ret. *)
io_putc(c, o) ==
  IF o.file = "NULL" THEN [o EXCEPT !.exited = TRUE]
  ELSE IF o.type = "IO_FILE_OUT_E"
       THEN [o EXCEPT !.sink = Append(@, c), !.ret = c % 256, !.wrote = @ + 1]
  ELSE IF o.type = "IO_STRING_OUT_E"
       THEN (IF o.position < o.max
             THEN [o EXCEPT !.string[o.position + 1] = c, !.position = @ + 1,
                            !.ret = c, !.wrote = @ + 1]
             ELSE [o EXCEPT !.ret = EOF])
  ELSE [o EXCEPT !.exited = TRUE]

(* while ((c = *(s + (count++)))) if (EOF == io_putc(c, o, e)) return EOF;
   return count; *)
RECURSIVE puts_loop(_, _, _)
puts_loop(str, count, o) ==
  IF ByteAt(str, count) = 0 THEN [o EXCEPT !.ret = count + 1]
  ELSE LET o1 == io_putc(ByteAt(str, count), o)
       IN  IF o1.exited \/ o1.ret = EOF THEN o1
           ELSE puts_loop(str, count + 1, o1)

(* io_puts(s, o, e) *)
io_puts(str) ==
  /\ ~io.exited /\ io.n < MaxOps
  /\ io' = [puts_loop(str, 0, [io EXCEPT !.wrote = 0])
               EXCEPT !.op = "puts", !.arg = str, !.n = @ + 1]
  /\ UNCHANGED <<lispvars, mem, tok>>

(* The interpreter's state when only a library part is exercised. *)
NoLisp ==
  /\ heap = <<>> /\ registry = <<>> /\ freed = {} /\ log = <<>> /\ out = <<>>
  /\ trace = <<>> /\ pc = Idle /\ form = "" /\ x = 0 /\ evalStart = 0
  /\ live = {} /\ nforms = 0

(* The streams a program can have set up: a handle wrapped for reading or
   for writing, a string to read, a buffer of two bytes to write to. *)
InitIO ==
  /\ NoLisp
  /\ io \in {Wrap(t, h, <<>>) : t \in {"IO_FILE_IN_E", "IO_FILE_OUT_E"}, h \in Handles}
           \cup {Wrap("IO_STRING_IN_E", "string", <<97, 98>>),
                 Wrap("IO_STRING_OUT_E", "string", <<32, 32>>)}
  /\ mem = Idle
  /\ tok = Idle

NextIO ==
  \/ io_file_close
  \/ io_getc
  \/ \E c \in {98, 99} : io_ungetc(c)
  \/ \E str \in {<<>>, <<120>>, <<120, 121, 122>>} : io_puts(str)

SpecIO == InitIO /\ [][NextIO]_vars

-----------------------------------------------------------------------------
(* mem.c: the malloc wrappers and their allocation counter *)

MAX_ALLOCS == 1048576

(* if (MAX_ALLOCS < alloccounter++) exit; v = malloc(size); if (NULL == v)
   exit; return v.  ok is whether the host malloc finds storage; outstanding
   counts the blocks returned and not yet freed, op names the last call. *)
wmalloc(ok) ==
  /\ ~mem.exited /\ mem.n < MaxOps
  /\ mem' = IF MAX_ALLOCS < mem.alloccounter \/ ~ok
             THEN [mem EXCEPT !.alloccounter = @ + 1, !.exited = TRUE, !.n = @ + 1, !.op = "wmalloc"]
             ELSE [mem EXCEPT !.alloccounter = @ + 1, !.outstanding = @ + 1, !.n = @ + 1, !.op = "wmalloc"]
  /\ UNCHANGED <<lispvars, io, tok>>

(* wcalloc: the same test and count around calloc. *)
wcalloc(ok) ==
  /\ ~mem.exited /\ mem.n < MaxOps
  /\ mem' = IF MAX_ALLOCS < mem.alloccounter \/ ~ok
             THEN [mem EXCEPT !.alloccounter = @ + 1, !.exited = TRUE, !.n = @ + 1, !.op = "wcalloc"]
             ELSE [mem EXCEPT !.alloccounter = @ + 1, !.outstanding = @ + 1, !.n = @ + 1, !.op = "wcalloc"]
  /\ UNCHANGED <<lispvars, io, tok>>

(* wfree(ptr, e) of a block one of the wrappers returned: the counter goes
   down first; with e == NULL the process exits before free is reached. *)
wfree(e) ==
  /\ ~mem.exited /\ mem.n < MaxOps
  /\ mem.outstanding > 0
  /\ mem' = IF e = "NULL"
             THEN [mem EXCEPT !.alloccounter = @ - 1, !.exited = TRUE, !.n = @ + 1, !.op = "wfree"]
             ELSE [mem EXCEPT !.alloccounter = @ - 1, !.outstanding = @ - 1, !.n = @ + 1, !.op = "wfree"]
  /\ UNCHANGED <<lispvars, io, tok>>

(* The process has k blocks outstanding: none, or a number near the limit. *)
InitMem ==
  /\ NoLisp
  /\ io = Idle
  /\ \E k \in {0, MAX_ALLOCS - 2, MAX_ALLOCS - 1} :
        mem = [alloccounter |-> k, outstanding |-> k, exited |-> FALSE, n |-> 0,
               op |-> ""]
  /\ tok = Idle

NextMem ==
  \/ \E ok \in BOOLEAN : wmalloc(ok)
  \/ \E ok \in BOOLEAN : wcalloc(ok)
  \/ \E e \in {"NULL", "e"} : wfree(e)

SpecMem == InitMem /\ [][NextMem]_vars

-----------------------------------------------------------------------------
(* Cell tags (sexpr_e) *)
S_NIL       == "S_NIL"
S_TEE       == "S_TEE"
S_LIST      == "S_LIST"
S_SYMBOL    == "S_SYMBOL"
S_STRING    == "S_STRING"
S_INTEGER   == "S_INTEGER"
S_PRIMITIVE == "S_PRIMITIVE"
S_PROC      == "S_PROC"

(* A cell as calloc returns it: every field zero. The payload union is kept
   as separate fields; len is the length of the list or of the string. *)
ZeroCell == [type |-> "", integer |-> 0, symbol |-> "", string |-> <<>>,
             list |-> <<>>, func |-> "", gcmark |-> FALSE]

(* A value together with the interpreter state that produced it. *)
R(st, v) == [st |-> st, v |-> v]

(* The two environments are the first allocations of lisp_init; they come
   from mem_calloc, so they are cells but are not on the heap registry. *)
Global == 1
Env    == 2
(* The file-static special objects, in the order lisp_init creates them. *)
nil      == 3
tee      == 4
s_if     == 5
s_lambda == 6
s_begin  == 7
s_define == 8
s_set    == 9
s_quote  == 10

len(st, c) == IF st.heap[c].type = S_STRING THEN Len(st.heap[c].string)
              ELSE Len(st.heap[c].list)

(* mem_calloc of one sexpr_t: a zeroed cell that is not registered. *)
mem_calloc(st) ==
  R([st EXCEPT !.heap = Append(@, ZeroCell)], Len(st.heap) + 1)

(* A gc_calloc that returns the cell without linking a registry node. *)
gc_calloc_unlinked(st) ==
  R([st EXCEPT !.heap = Append(@, ZeroCell)], Len(st.heap) + 1)

(* gc_calloc: a zeroed cell, appended to the heap registry. *)
gc_calloc(st) ==
  LET v == Len(st.heap) + 1
  IN  R([st EXCEPT !.heap = Append(@, ZeroCell),
                   !.registry = Append(@, v)], v)

mkobj(type, st) ==
  LET r == gc_calloc(st)
  IN  R([r.st EXCEPT !.heap[r.v].type = type], r.v)

mksym(s, st) ==
  LET r == mkobj(S_SYMBOL, st)
  IN  R([r.st EXCEPT !.heap[r.v].symbol = s], r.v)

mkprimop(func, st) ==
  LET r == mkobj(S_PRIMITIVE, st)
  IN  R([r.st EXCEPT !.heap[r.v].func = func], r.v)

(* append(list, child): grow the child array of list by one. *)
append(list, child, st) ==
  [st EXCEPT !.heap[list].list = Append(@, child)]

(* sexpr_perror: one (error ...) line on the logging stream. *)
sexpr_perror(msg, st) == [st EXCEPT !.log = Append(@, msg)]

(* A ghost record of one step of the evaluation. *)
Note(st, e) == [st EXCEPT !.trace = Append(@, e)]


-----------------------------------------------------------------------------
(* Environments *)

(* An extend that returns the new pair instead of the value. *)
extend_pair(sym, val, env, st) ==
  LET r  == mkobj(S_LIST, st)
      s1 == append(r.v, sym, r.st)
      s2 == append(r.v, val, s1)
      s3 == append(env, r.v, s2)
  IN  R(s3, r.v)

(* extend: a new pair [sym, val] appended to env; returns val. *)
extend(sym, val, env, st) ==
  LET r  == mkobj(S_LIST, st)
      s1 == append(r.v, sym, r.st)
      s2 == append(r.v, val, s1)
      s3 == append(env, r.v, s2)
  IN  R(s3, val)

extendprimop(s, func, st) ==
  LET a == mksym(s, st)
      b == mkprimop(func, a.st)
  IN  extend(a.v, b.v, Global, b.st)

(* A scan that returns the oldest pair that binds s, not the newest. *)
dofind_oldest(st, env, s, i) ==
  LET hits == {j \in 0..i : st.heap[st.heap[st.heap[env].list[j + 1]].list[1]].symbol = s}
  IN  IF hits = {} THEN nil
      ELSE st.heap[env].list[(CHOOSE j \in hits : \A h \in hits : j <= h) + 1]

(* The reverse scan of dofind; i is the C index of the pair looked at. *)
RECURSIVE dofind_scan(_, _, _, _)
dofind_scan(st, env, s, i) ==
  LET pair == st.heap[env].list[i + 1]
      hit  == st.heap[st.heap[pair].list[1]].symbol = s
  IN  IF hit THEN pair
      ELSE IF i = 0 THEN nil
      ELSE dofind_scan(st, env, s, i - 1)

dofind(env, sym, st) ==
  IF st.heap[env].type # S_LIST \/ st.heap[sym].type # S_SYMBOL THEN nil
  ELSE IF 1 > len(st, env) THEN nil
  ELSE dofind_scan(st, env, st.heap[sym].symbol, len(st, env) - 1)

(* A find that looks in global before env. *)
find_global_first(env, sym, st) ==
  LET nx == dofind(Global, sym, st)
  IN  IF nx = nil THEN dofind(env, sym, st) ELSE nx

find(env, sym, st) ==
  LET nx == dofind(env, sym, st)
  IN  IF nx = nil THEN dofind(Global, sym, st) ELSE nx

(* mkproc: [args, code, copy of the element references of env]. *)
mkproc(args, code, env, st) ==
  LET nx   == mkobj(S_PROC, st)
      s1   == append(nx.v, args, nx.st)
      s2   == append(nx.v, code, s1)
      nenv == mkobj(S_LIST, s2)
      s3   == [nenv.st EXCEPT !.heap[nenv.v].list = st.heap[env].list]
  IN  R(append(nx.v, nenv.v, s3), nx.v)

-----------------------------------------------------------------------------
(* lisp_init *)

(* The initializer table LIST_OF_PRIMITIVE_OPERATIONS. *)
primops == << <<"+", "primop_add">>, <<"-", "primop_sub">>,
              <<"*", "primop_prod">>, <<"/", "primop_div">>,
              <<"mod", "primop_mod">>, <<"car", "primop_car">>,
              <<"cdr", "primop_cdr">>, <<"cons", "primop_cons">>,
              <<"nth", "primop_nth">>, <<"length", "primop_len">>,
              <<"=", "primop_numeq">>, <<"print", "primop_printexpr">>,
              <<"scar", "primop_scar">>, <<"scdr", "primop_scdr">>,
              <<"scons", "primop_scons">>, <<"eqt", "primop_typeeq">>,
              <<"reverse", "primop_reverse">>, <<"system", "primop_system">> >>

(* The state after "allocation failed during init" and exit. *)
NULL == 0
init_fail(st) == [st EXCEPT !.halt = "allocation failed during init"]

RECURSIVE init_primops(_, _)
init_primops(i, st) ==
  IF i > Len(primops) THEN st
  ELSE LET r == extendprimop(primops[i][1], primops[i][2], st)
       IN  IF NULL = r.v THEN init_fail(r.st) ELSE init_primops(i + 1, r.st)

RECURSIVE init_markers(_, _)
(* extend(s_if, s_if, l->global) and the same for the other five markers *)
init_markers(m, st) ==
  IF m > s_quote THEN init_primops(1, st)
  ELSE LET r == extend(m, m, Global, st)
       IN  IF NULL = r.v THEN init_fail(r.st) ELSE init_markers(m + 1, r.st)

lisp_init ==
  LET s0  == [heap |-> <<>>, registry |-> <<>>, log |-> <<>>, out |-> <<>>,
              trace |-> <<>>, depth |-> 0, halt |-> "",
           ub |-> NULL, wild |-> 0, found |-> 0]
      g   == mem_calloc(s0)
      e   == mem_calloc(g.st)
      s1  == [e.st EXCEPT !.heap[g.v].type = S_LIST, !.heap[e.v].type = S_LIST]
      n   == mkobj(S_NIL, s1)
      t   == mkobj(S_TEE, n.st)
      a1  == mksym("if", t.st)
      a2  == mksym("lambda", a1.st)
      a3  == mksym("begin", a2.st)
      a4  == mksym("define", a3.st)
      a5  == mksym("set", a4.st)
      a6  == mksym("quote", a5.st)
      b1  == mksym("nil", a6.st)
      c1  == extend(b1.v, n.v, g.v, b1.st)
      b2  == mksym("t", c1.st)
      c2  == extend(b2.v, t.v, g.v, b2.st)
  IN  IF NULL = c1.v \/ NULL = c2.v THEN init_fail(c2.st)
      ELSE init_markers(s_if, c2.st)

-----------------------------------------------------------------------------
(* The reader *)

(* Parsed text: an integer, a symbol, a string or a list of those. *)
I(n)   == [k |-> "int", i |-> n, s |-> "", l |-> <<>>]
Y(s)   == [k |-> "sym", i |-> 0, s |-> s, l |-> <<>>]
Q(cs)  == [k |-> "str", i |-> 0, s |-> "", l |-> cs]
L(fs)  == [k |-> "list", i |-> 0, s |-> "", l |-> fs]

RECURSIVE sexpr_parse(_, _), parse_list(_, _, _, _)
(* sexpr_parse: one cell per atom; a list cell is allocated before its
   children and the children are appended in order. *)
sexpr_parse(f, st) ==
  CASE f.k = "int" -> LET r == mkobj(S_INTEGER, st)
                      IN  R([r.st EXCEPT !.heap[r.v].integer = f.i], r.v)
    [] f.k = "sym" -> mksym(f.s, st)
    [] f.k = "str" -> LET r == mkobj(S_STRING, st)
                      IN  R([r.st EXCEPT !.heap[r.v].string = f.l], r.v)
    [] f.k = "list" -> LET r == mkobj(S_LIST, st)
                       IN  parse_list(f, 1, r.v, r.st)

(* A child that fails to parse makes the whole list fail. *)
parse_list(f, i, nx, st) ==
  IF i > Len(f.l) THEN R(st, nx)
  ELSE LET c == sexpr_parse(f.l[i], st)
       IN  IF NULL = c.v THEN R(c.st, NULL)
           ELSE parse_list(f, i + 1, nx, append(nx, c.v, c.st))

-----------------------------------------------------------------------------
(* Integer arithmetic of the host: int32_t payloads, 64-bit size_t *)

Abs(n) == IF n < 0 THEN -n ELSE n
(* C's signed division and remainder truncate toward zero. *)
CQuot(a, b) == IF (a < 0) = (b < 0) THEN Abs(a) \div Abs(b) ELSE -(Abs(a) \div Abs(b))
CRem(a, b)  == a - b * CQuot(a, b)

(* (int32_t)((size_t)a / (size_t)b) for int32 a, b with b # 0, as
   "nx->data.integer /= tmp" computes it with tmp a size_t.  A negative
   operand converts to 2^64 + operand; the long division runs over 16-bit
   limbs so that no intermediate exceeds 31 bits (b < 2^15 when a < 0 < b). *)
Limb == 65536
UDiv(a, b) ==
  IF a >= 0 /\ b > 0 THEN a \div b
  ELSE IF b < 0 THEN (IF a < 0 /\ a >= b THEN 1 ELSE 0)
  ELSE LET l0 == a % Limb
           l1 == (a \div Limb) % Limb
           r3 == (Limb - 1) % b
           r2 == (r3 * Limb + (Limb - 1)) % b
           q1 == (r2 * Limb + l1) \div b
           r1 == (r2 * Limb + l1) % b
           q0 == (r1 * Limb + l0) \div b
           h1 == q1 % Limb
           h0 == q0 % Limb
       IN  IF h1 >= Limb \div 2 THEN (h1 - Limb) * Limb + h0 ELSE h1 * Limb + h0

-----------------------------------------------------------------------------
(* Primitive operations.  Each takes the List cell of evaluated arguments. *)

NTH(st, c, i) == st.heap[c].list[i + 1]
IsInt(st, c)  == st.heap[c].type = S_INTEGER
IntOf(st, c)    == st.heap[c].integer
SetInt(st, c, n) == [st EXCEPT !.heap[c].integer = n]
(* INTCHK_R failing: diagnose and return nil. *)
IntErr(st) == R(sexpr_perror("arg != integer", st), nil)

RECURSIVE add_loop(_, _, _, _)
add_loop(args, i, nx, st) ==
  IF i >= len(st, args) THEN R(st, nx)
  ELSE IF ~IsInt(st, NTH(st, args, i)) THEN IntErr(st)
  ELSE add_loop(args, i + 1, nx, SetInt(st, nx, IntOf(st, nx) + IntOf(st, NTH(st, args, i))))

primop_add(args, st) ==
  LET nx == mkobj(S_INTEGER, st)
  IN  IF 0 = len(st, args) THEN R(nx.st, nil) ELSE add_loop(args, 0, nx.v, nx.st)

RECURSIVE sub_loop(_, _, _, _)
sub_loop(args, i, nx, st) ==
  IF i >= len(st, args) THEN R(st, nx)
  ELSE IF ~IsInt(st, NTH(st, args, i)) THEN IntErr(st)
  ELSE sub_loop(args, i + 1, nx, SetInt(st, nx, IntOf(st, nx) - IntOf(st, NTH(st, args, i))))

(* nx is reassigned to the first argument, which the loop then updates. *)
primop_sub(args, st) ==
  LET s1 == mkobj(S_INTEGER, st).st
      nx == NTH(s1, args, 0)
  IN  IF 0 = len(st, args) THEN R(s1, nil)
      ELSE IF ~IsInt(s1, nx) THEN IntErr(s1)
      ELSE sub_loop(args, 1, nx, s1)

RECURSIVE prod_loop(_, _, _, _)
prod_loop(args, i, nx, st) ==
  IF i >= len(st, args) THEN R(st, nx)
  ELSE IF ~IsInt(st, NTH(st, args, i)) THEN IntErr(st)
  ELSE prod_loop(args, i + 1, nx, SetInt(st, nx, IntOf(st, nx) * IntOf(st, NTH(st, args, i))))

primop_prod(args, st) ==
  LET s1 == mkobj(S_INTEGER, st).st
      nx == NTH(s1, args, 0)
  IN  IF 0 = len(st, args) THEN R(s1, nil)
      ELSE IF ~IsInt(s1, nx) THEN IntErr(s1)
      ELSE prod_loop(args, 1, nx, s1)

RECURSIVE div_loop(_, _, _, _)
(* nx->data.integer /= tmp; an integer division by zero traps. *)
DivAssign(st, nx, tmp) ==
  IF tmp = 0 THEN [st EXCEPT !.halt = "division by zero"]
  ELSE SetInt(st, nx, UDiv(IntOf(st, nx), tmp))

(* A division loop without the test of tmp. *)
div_loop_unguarded(args, i, nx, st) ==
  IF i >= len(st, args) \/ st.halt # "" THEN R(st, nx)
  ELSE IF ~IsInt(st, NTH(st, args, i)) THEN IntErr(st)
  ELSE div_loop(args, i + 1, nx, DivAssign(st, nx, IntOf(st, NTH(st, args, i))))

div_loop(args, i, nx, st) ==
  IF i >= len(st, args) THEN R(st, nx)
  ELSE IF ~IsInt(st, NTH(st, args, i)) THEN IntErr(st)
  ELSE LET tmp == IntOf(st, NTH(st, args, i))
       IN  IF tmp # 0
           THEN div_loop(args, i + 1, nx, DivAssign(st, nx, tmp))
           ELSE R(sexpr_perror("div: 0/", st), nil)

primop_div(args, st) ==
  LET s1 == mkobj(S_INTEGER, st).st
      nx == NTH(s1, args, 0)
  IN  IF 0 = len(st, args) THEN R(s1, nil)
      ELSE IF ~IsInt(s1, nx) THEN IntErr(s1)
      ELSE div_loop(args, 1, nx, s1)

primop_mod(args, st) ==
  LET nx == mkobj(S_INTEGER, st)
      s1 == nx.st
  IN  IF 2 # len(s1, args) THEN R(sexpr_perror("mod: argc != 2", s1), nil)
      ELSE IF ~IsInt(s1, NTH(s1, args, 0)) THEN IntErr(s1)
      ELSE IF ~IsInt(s1, NTH(s1, args, 1)) THEN IntErr(s1)
      ELSE LET tmp == IntOf(s1, NTH(s1, args, 1))
           IN  IF 0 = tmp THEN R(sexpr_perror("mod: 0/", s1), nil)
               ELSE R(SetInt(s1, nx.v, CRem(IntOf(s1, NTH(s1, args, 0)), tmp)), nx.v)

(* CAR(a1) of a List of length 0 reads slot 0 of an array that was never
   allocated (data.list is the NULL gc_calloc left): the read traps, or it
   yields whatever word is there; st.ub is the outcome, NULL for the trap. *)
primop_car(args, st) ==
  IF 1 # len(st, args) THEN R(sexpr_perror("car: argc != 1", st), nil)
  ELSE LET a1 == NTH(st, args, 0)
       IN  IF st.heap[a1].type # S_LIST THEN R(sexpr_perror("args != list", st), nil)
           ELSE IF len(st, a1) = 0
                THEN LET s1 == [st EXCEPT !.wild = @ + 1]
                     IN  IF st.ub = NULL THEN R([s1 EXCEPT !.halt = "null list read"], nil)
                         ELSE R(s1, st.ub)
           ELSE R(st, NTH(st, a1, 0))

primop_cdr(args, st) ==
  IF 0 = len(st, args) THEN R(st, nil)
  ELSE LET nx   == mkobj(S_LIST, st)
           carg == NTH(st, args, 0)
       IN  IF st.heap[carg].type # S_LIST \/ 1 >= len(st, carg) THEN R(nx.st, nil)
           ELSE R([nx.st EXCEPT !.heap[nx.v].list = Tail(st.heap[carg].list)], nx.v)

(* A cons that makes the pair of its two arguments whatever the second
   is. *)
primop_cons_pair(args, st) ==
  LET nx == mkobj(S_LIST, st)
  IN  IF 2 # len(nx.st, args) THEN R(sexpr_perror("cons: argc != 2", nx.st), nil)
      ELSE R(append(nx.v, NTH(nx.st, args, 1), append(nx.v, NTH(nx.st, args, 0), nx.st)),
             nx.v)

primop_cons(args, st) ==
  LET nx == mkobj(S_LIST, st)
      s1 == nx.st
  IN  IF 2 # len(s1, args) THEN R(sexpr_perror("cons: argc != 2", s1), nil)
      ELSE LET prepend == NTH(s1, args, 0)
               list    == NTH(s1, args, 1)
           IN  IF s1.heap[list].type = S_NIL THEN R(append(nx.v, prepend, s1), nx.v)
               ELSE IF s1.heap[list].type = S_LIST
               THEN R([s1 EXCEPT !.heap[nx.v].list = <<prepend>> \o s1.heap[list].list], nx.v)
               ELSE R(append(nx.v, list, append(nx.v, prepend, s1)), nx.v)

(* The byte at C index i of a string payload; index len is the NUL. *)
NUL == "NUL"
CharAt(str, i) == IF i < Len(str) THEN str[i + 1] ELSE NUL
(* A string payload as strlen/strcpy see it: the bytes before the first NUL. *)
RECURSIVE CStr(_)
CStr(str) == IF str = <<>> \/ Head(str) = NUL THEN <<>> ELSE <<Head(str)>> \o CStr(Tail(str))
(* A zeroed buffer of n bytes after str was copied to its start. *)
PadTo(str, n) == str \o [i \in 1..(n - Len(str)) |-> NUL]

(* The index is compared after conversion to size_t, so a negative index
   is larger than any length, and index len passes the test. *)
(* NTH(a2, i) with i = a2->len reads the slot after the last element of
   data.list, or slot 0 of the NULL array of an empty List: the read traps,
   or it yields whatever word is there; st.ub is the outcome, NULL for the
   trap.  For a String the byte at i = len is the terminating NUL. *)
primop_nth(args, st) ==
  IF 2 # len(st, args) THEN R(sexpr_perror("NTH: argc != 2", st), nil)
  ELSE LET a1 == NTH(st, args, 0)
           a2 == NTH(st, args, 1)
       IN  IF st.heap[a1].type # S_INTEGER
           THEN R(sexpr_perror("NTH: arg 1 != integer", st), nil)
           ELSE IF st.heap[a2].type # S_LIST /\ st.heap[a2].type # S_STRING
           THEN R(sexpr_perror("NTH: arg 2 != list || string", st), nil)
           ELSE LET i0 == IntOf(st, a1)
                    i  == IF 0 > i0 THEN len(st, a2) + i0 ELSE i0
                IN  IF i < 0 \/ i > len(st, a2) THEN R(st, nil)
                    ELSE IF st.heap[a2].type = S_LIST
                    THEN (IF i = len(st, a2)
                          THEN LET s1 == [st EXCEPT !.wild = @ + 1]
                               IN  IF st.ub = NULL
                                   THEN R([s1 EXCEPT !.halt = "list read out of bounds"], nil)
                                   ELSE R(s1, st.ub)
                          ELSE R(st, NTH(st, a2, i)))
                    ELSE LET nx == mkobj(S_STRING, st)
                         IN  R([nx.st EXCEPT !.heap[nx.v].string =
                                   <<CharAt(st.heap[a2].string, i)>>], nx.v)

primop_len(args, st) ==
  LET nx == mkobj(S_INTEGER, st)
      s1 == nx.st
  IN  IF 1 # len(s1, args) THEN R(sexpr_perror("len: argc != 1", s1), nil)
      ELSE LET a1 == NTH(s1, args, 0)
           IN  IF s1.heap[a1].type # S_LIST /\ s1.heap[a1].type # S_STRING
               THEN R(sexpr_perror("len: arg 2 != list || string", s1), nil)
               ELSE R(SetInt(s1, nx.v, len(s1, a1)), nx.v)

RECURSIVE numeq_loop(_, _, _, _)
numeq_loop(args, i, nx, st) ==
  IF i >= len(st, args) THEN R(st, tee)
  ELSE IF ~IsInt(st, NTH(st, args, i)) THEN IntErr(st)
  ELSE IF IntOf(st, nx) # IntOf(st, NTH(st, args, i)) THEN R(st, nil)
  ELSE numeq_loop(args, i + 1, nx, SetInt(st, nx, IntOf(st, NTH(st, args, i))))

primop_numeq(args, st) ==
  IF 0 = len(st, args) THEN R(st, nil)
  ELSE IF ~IsInt(st, NTH(st, args, 0)) THEN IntErr(st)
  ELSE numeq_loop(args, 1, NTH(st, args, 0), st)

(* print: the argument list goes to the output stream and is returned. *)
primop_printexpr(args, st) == R([st EXCEPT !.out = Append(@, args)], args)

primop_scar(args, st) ==
  IF 1 # len(st, args) THEN R(sexpr_perror("CAR: argc != 1", st), nil)
  ELSE LET a1 == NTH(st, args, 0)
       IN  IF st.heap[a1].type # S_STRING THEN R(sexpr_perror("args != string", st), nil)
           ELSE LET nx == mkobj(S_STRING, st)
                IN  R([nx.st EXCEPT !.heap[nx.v].string =
                          <<CharAt(st.heap[a1].string, 0)>>], nx.v)

primop_scdr(args, st) ==
  IF 0 = len(st, args) THEN R(st, nil)
  ELSE LET nx   == mkobj(S_STRING, st)
           carg == NTH(st, args, 0)
       IN  IF st.heap[carg].type # S_STRING \/ 1 >= len(st, carg) THEN R(nx.st, nil)
           ELSE R([nx.st EXCEPT !.heap[nx.v].string =
                      PadTo(CStr(Tail(st.heap[carg].string)), len(st, carg) - 1)], nx.v)

primop_scons(args, st) ==
  LET nx == mkobj(S_LIST, st)
      s1 == nx.st
  IN  IF 2 # len(s1, args) THEN R(sexpr_perror("cons: argc != 2", s1), nil)
      ELSE LET prepend == NTH(s1, args, 0)
               list    == NTH(s1, args, 1)
           IN  IF s1.heap[list].type = S_STRING /\ s1.heap[prepend].type = S_STRING
               THEN R([s1 EXCEPT !.heap[nx.v].type = S_STRING,
                                 !.heap[nx.v].string =
                                    PadTo(CStr(s1.heap[prepend].string) \o CStr(s1.heap[list].string),
                                          len(s1, list) + len(s1, prepend))], nx.v)
               ELSE R(sexpr_perror("cons: arg != string", s1), nil)

primop_typeeq(args, st) ==
  IF 0 = len(st, args) THEN R(st, nil)
  ELSE IF \E i \in 1..(len(st, args) - 1) :
            st.heap[NTH(st, args, 0)].type # st.heap[NTH(st, args, i)].type
       THEN R(st, nil)
       ELSE R(st, tee)

Reverse(s) == [i \in 1..Len(s) |-> s[Len(s) - i + 1]]

primop_reverse(args, st) ==
  IF 1 # len(st, args) THEN R(sexpr_perror("reverse: argc != 1", st), nil)
  ELSE LET carg == NTH(st, args, 0)
           type == st.heap[carg].type
       IN  IF type # S_LIST /\ type # S_STRING
           THEN R(sexpr_perror("reverse: not a reversible type", st), nil)
           ELSE LET nx == mkobj(type, st)
                IN  IF type = S_LIST
                    THEN R([nx.st EXCEPT !.heap[nx.v].list = Reverse(st.heap[carg].list)], nx.v)
                    ELSE R([nx.st EXCEPT !.heap[nx.v].string = Reverse(st.heap[carg].string)], nx.v)

(* system: the host shell is outside the interpreter; its exit status is
   taken to be 0, which the primitive returns as a new Integer. *)
primop_system(args, st) ==
  IF 1 # len(st, args) THEN R(sexpr_perror("system: argc != 1", st), nil)
  ELSE IF st.heap[NTH(st, args, 0)].type # S_STRING
       THEN R(sexpr_perror("system: arg != string", st), nil)
       ELSE mkobj(S_INTEGER, st)

(* proc->data.func(args, l) *)
call_primop(func, args, st) ==
  CASE func = "primop_add"       -> primop_add(args, st)
    [] func = "primop_sub"       -> primop_sub(args, st)
    [] func = "primop_prod"      -> primop_prod(args, st)
    [] func = "primop_div"       -> primop_div(args, st)
    [] func = "primop_mod"       -> primop_mod(args, st)
    [] func = "primop_car"       -> primop_car(args, st)
    [] func = "primop_cdr"       -> primop_cdr(args, st)
    [] func = "primop_cons"      -> primop_cons(args, st)
    [] func = "primop_nth"       -> primop_nth(args, st)
    [] func = "primop_len"       -> primop_len(args, st)
    [] func = "primop_numeq"     -> primop_numeq(args, st)
    [] func = "primop_printexpr" -> primop_printexpr(args, st)
    [] func = "primop_scar"      -> primop_scar(args, st)
    [] func = "primop_scdr"      -> primop_scdr(args, st)
    [] func = "primop_scons"     -> primop_scons(args, st)
    [] func = "primop_typeeq"    -> primop_typeeq(args, st)
    [] func = "primop_reverse"   -> primop_reverse(args, st)
    [] func = "primop_system"    -> primop_system(args, st)

-----------------------------------------------------------------------------
(* The evaluator *)

CAR(st, c)    == st.heap[c].list[1]
CADR(st, c)   == st.heap[c].list[2]
CADDR(st, c)  == st.heap[c].list[3]
(* A fourth-element accessor that yields the third element. *)
CADDDR_third(st, c) == st.heap[c].list[3]
CADDDR(st, c) == st.heap[c].list[4]
(* A length test that accepts every longer list as well, the empty list
   excepted. *)
TSTLEN_min(st, c, n) == IF n = 0 THEN n = len(st, c) ELSE n <= len(st, c)

TSTLEN(st, c, n) == n = len(st, c)
PROCARGS(st, c) == CAR(st, c)
PROCCODE(st, c) == CADR(st, c)
PROCENV(st, c)  == CADDR(st, c)

(* The fields of a ghost record; each kind of record fills in its own. *)
E0 == [ev |-> "", x |-> 0, env |-> 0, v |-> 0, d |-> 0, proc |-> 0, args |-> 0,
       argv |-> <<>>, xs |-> <<>>, h0 |-> 0, name |-> "", before |-> <<>>,
       after |-> <<>>, sym |-> 0, ret |-> 0, gbefore |-> <<>>, gafter |-> <<>>,
       pair |-> 0, pairlist |-> <<>>, el |-> <<>>, gl |-> <<>>, nlog |-> 0,
       ekeys |-> <<>>, gkeys |-> <<>>, elv |-> <<>>, glv |-> <<>>,
       el1 |-> <<>>, gl1 |-> <<>>, lists0 |-> <<>>, lists1 |-> <<>>,
       vlist |-> <<>>, nlog1 |-> 0, nwild |-> 0, vint |-> 0]

Ints(st, cs) == [i \in 1..Len(cs) |-> st.heap[cs[i]].integer]

(* The child array of an environment, empty for a cell that is not a List;
   and the names its pairs bind, oldest first. *)
PairsOf(st, env) == IF st.heap[env].type = S_LIST THEN st.heap[env].list ELSE <<>>
KeysOf(st, env) ==
  [i \in 1..Len(PairsOf(st, env)) |-> st.heap[CAR(st, PairsOf(st, env)[i])].symbol]
(* What a ghost record of entry or return says of the interpreter. *)
Seen(st, env, e) ==
  [e EXCEPT !.env = env, !.el = PairsOf(st, env), !.gl = PairsOf(st, Global),
            !.nlog = Len(st.log)]

RECURSIVE lisp_eval(_, _, _), eval_switch(_, _, _), eval_form(_, _, _, _),
          begin_loop(_, _, _, _), evlis(_, _, _), evlis_head(_, _, _), evlis_loop(_, _, _, _, _),
          apply(_, _, _), extensions(_, _, _, _), extensions_loop(_, _, _, _, _)

(* lisp_eval; the records of entry and return are ghosts, and an evaluation
   that has stopped the process evaluates nothing more. *)
lisp_eval(x_, env, st) ==
  IF st.halt # "" THEN R(st, nil)
  ELSE LET d  == st.depth
           s0 == [Note(st, Seen(st, env, [E0 EXCEPT !.ev = "eval", !.x = x_, !.d = d]))
                    EXCEPT !.depth = d + 1]
           return(r) ==
             R([Note(r.st, Seen(r.st, env, [E0 EXCEPT !.ev = "ret", !.x = x_,
                                                      !.v = r.v, !.d = d,
                                                      !.pair = r.st.found]))
                  EXCEPT !.depth = d], r.v)
       IN  return(eval_switch(x_, env, s0))

(* switch (x->type) *)
eval_switch(x_, env, st) ==
  CASE st.heap[x_].type = S_LIST ->
         IF TSTLEN(st, x_, 0) THEN R(st, nil)
         ELSE IF st.heap[CAR(st, x_)].type = S_SYMBOL
              THEN LET f == lisp_eval(CAR(st, x_), env, st)
                   IN  eval_form(f.v, x_, env, f.st)
              ELSE R(sexpr_perror("cannot apply", st), nil)
    [] st.heap[x_].type = S_SYMBOL ->
         LET nx == find(env, x_, st)
             s1 == [st EXCEPT !.found = nx]
         IN  IF nil = nx THEN R(sexpr_perror("unbound symbol", s1), nil)
             ELSE R(s1, CADR(st, nx))
    [] OTHER -> R(st, x_)

(* The chain of comparisons of foundx with the special-form markers. *)
eval_form(foundx, x_, env, st) ==
  IF foundx = s_if THEN
       IF ~TSTLEN(st, x_, 4) THEN R(sexpr_perror("if: argc != 4", st), nil)
       ELSE LET t == lisp_eval(CADR(st, x_), env, st)
            IN  IF nil = t.v THEN lisp_eval(CADDDR(t.st, x_), env, t.st)
                ELSE lisp_eval(CADDR(t.st, x_), env, t.st)
  ELSE IF foundx = s_begin THEN
       IF TSTLEN(st, x_, 1) THEN R(st, nil)
       ELSE begin_loop(x_, 1, env, st)
  ELSE IF foundx = s_quote THEN
       IF ~TSTLEN(st, x_, 2) THEN R(sexpr_perror("quote: argc != 1", st), nil)
       ELSE R(st, CADR(st, x_))
  ELSE IF foundx = s_set THEN
       IF ~TSTLEN(st, x_, 3) THEN R(sexpr_perror("set: argc != 2", st), nil)
       ELSE LET nx == find(env, CADR(st, x_), st)
            IN  IF nil = nx
                THEN R(Note(sexpr_perror("unbound symbol", st),
                            [E0 EXCEPT !.ev = "set unbound", !.x = x_, !.env = env,
                                       !.d = st.depth, !.name = st.heap[CADR(st, x_)].symbol,
                                       !.ekeys = KeysOf(st, env), !.gkeys = KeysOf(st, Global)]),
                       nil)
                ELSE LET r  == lisp_eval(CADDR(st, x_), env, st)
                         s1 == [r.st EXCEPT !.heap[nx].list[2] = r.v]
                     IN  R(Note(s1, [E0 EXCEPT !.ev = "set", !.x = x_, !.env = env,
                                       !.d = st.depth, !.name = st.heap[CADR(st, x_)].symbol,
                                       !.ekeys = KeysOf(st, env), !.gkeys = KeysOf(st, Global),
                                       !.el = PairsOf(st, env), !.gl = PairsOf(st, Global),
                                       !.pair = nx, !.v = r.v, !.ret = CADR(s1, nx),
                                       !.before = r.st.heap[nx].list,
                                       !.pairlist = s1.heap[nx].list,
                                       !.elv = PairsOf(r.st, env), !.glv = PairsOf(r.st, Global),
                                       !.el1 = PairsOf(s1, env), !.gl1 = PairsOf(s1, Global)]),
                           CADR(s1, nx))
  ELSE IF foundx = s_define THEN
       IF ~TSTLEN(st, x_, 3) THEN R(sexpr_perror("define: argc != 2", st), nil)
       ELSE LET r  == lisp_eval(CADDR(st, x_), env, st)
                nx == extend(CADR(r.st, x_), r.v, Global, r.st)
                g  == nx.st.heap[Global].list
            IN  R(Note(nx.st, [E0 EXCEPT !.ev = "define", !.x = x_, !.env = env,
                                 !.d = st.depth, !.sym = CADR(r.st, x_),
                                 !.v = r.v, !.ret = nx.v,
                                 !.gbefore = r.st.heap[Global].list, !.gafter = g,
                                 !.pair = g[Len(g)],
                                 !.pairlist = nx.st.heap[g[Len(g)]].list]),
                  nx.v)
  ELSE IF foundx = s_lambda THEN
       IF ~TSTLEN(st, x_, 3) THEN R(sexpr_perror("lambda: argc != 2", st), nil)
       ELSE mkproc(CADR(st, x_), CADDR(st, x_), env, st)
  ELSE LET a  == evlis(x_, env, st)
           s1 == Note(a.st, [E0 EXCEPT !.ev = "apply", !.x = x_, !.d = st.depth,
                               !.proc = foundx, !.args = a.v,
                               !.argv = a.st.heap[a.v].list,
                               !.xs = a.st.heap[x_].list, !.h0 = Len(st.heap)])
       IN  apply(foundx, a.v, s1)

(* A begin that evaluates its last element only. *)
begin_loop_last(x_, i, env, st) == lisp_eval(NTH(st, x_, len(st, x_) - 1), env, st)

(* for (i = 1; i < x->len - 1; i++) eval; return eval(NTH(x, i)) *)
begin_loop(x_, i, env, st) ==
  IF i < len(st, x_) - 1
  THEN begin_loop(x_, i + 1, env, lisp_eval(NTH(st, x_, i), env, st).st)
  ELSE lisp_eval(NTH(st, x_, i), env, st)

(* An evlis that does not skip element 0, the head. *)
evlis_head(x_, env, st) ==
  LET nx == mkobj(S_LIST, st)
  IN  evlis_loop(x_, 0, env, nx.v, nx.st)

evlis(x_, env, st) ==
  LET nx == mkobj(S_LIST, st)
  IN  evlis_loop(x_, 1, env, nx.v, nx.st)

evlis_loop(x_, i, env, nx, st) ==
  IF i < len(st, x_)
  THEN LET r == lisp_eval(NTH(st, x_, i), env, st)
       IN  evlis_loop(x_, i + 1, env, nx, append(nx, r.v, r.st))
  ELSE R(st, nx)

extensions(env, syms, vals, st) ==
  IF 0 = len(st, vals) THEN R(st, nil)
  ELSE extensions_loop(env, syms, vals, 0, st)

extensions_loop(env, syms, vals, i, st) ==
  IF i < len(st, syms)
  THEN extensions_loop(env, syms, vals, i + 1,
                       extend(NTH(st, syms, i), NTH(st, vals, i), env, st).st)
  ELSE R(st, env)

apply(proc, args, st) ==
  IF st.halt # "" THEN R(st, nil)
  ELSE IF st.heap[proc].type = S_PRIMITIVE THEN
       LET argv == st.heap[args].list
           return(r) ==
             R(Note(r.st, [E0 EXCEPT !.ev = "prim", !.name = st.heap[proc].func,
                             !.d = st.depth, !.args = args, !.argv = argv, !.v = r.v,
                             !.before = Ints(st, argv), !.after = Ints(r.st, argv),
                             !.h0 = Len(st.heap), !.vlist = PairsOf(r.st, r.v),
                             !.lists0 = [i \in DOMAIN argv |-> PairsOf(st, argv[i])],
                             !.lists1 = [i \in DOMAIN argv |-> PairsOf(r.st, argv[i])],
                             !.nlog = Len(st.log), !.nlog1 = Len(r.st.log),
                             !.nwild = r.st.wild - st.wild,
                             !.vint = r.st.heap[r.v].integer]),
               r.v)
       IN  return(call_primop(st.heap[proc].func, args, st))
  ELSE IF st.heap[proc].type = S_PROC THEN
       IF len(st, args) # len(st, PROCARGS(st, proc))
       THEN R(sexpr_perror("expected number of args incorrect", st), nil)
       ELSE LET nenv == extensions(PROCENV(st, proc), PROCARGS(st, proc), args, st)
                return(r) ==
                  R(Note(r.st, [E0 EXCEPT !.ev = "applied", !.proc = proc, !.d = st.depth,
                                  !.args = args, !.env = nenv.v, !.v = r.v,
                                  !.el = PairsOf(st, PROCENV(st, proc)),
                                  !.el1 = PairsOf(r.st, PROCENV(r.st, proc))]),
                    r.v)
            IN  return(lisp_eval(PROCCODE(nenv.st, proc), nenv.v, nenv.st))
  ELSE R(sexpr_perror("apply failed", st), nil)

-----------------------------------------------------------------------------
(* The collector *)

RECURSIVE gcmark(_, _), gcmark_list(_, _, _)
(* gcmark: nothing for a null root; stop at a marked cell, otherwise mark it
   and its children. *)
gcmark(root, h) ==
  IF root = NULL THEN h
  ELSE IF h[root].gcmark THEN h
  ELSE LET h1 == [h EXCEPT ![root].gcmark = TRUE]
       IN  CASE h[root].type = S_LIST -> gcmark_list(h[root].list, 1, h1)
             [] h[root].type = S_PROC ->
                  gcmark(h[root].list[3], gcmark(h[root].list[2],
                                                 gcmark(h[root].list[1], h1)))
             [] OTHER -> h1

gcmark_list(l, i, h) ==
  IF i > Len(l) THEN h ELSE gcmark_list(l, i + 1, gcmark(l[i], h))

Range(f) == {f[i] : i \in DOMAIN f}

(* A sweep that frees the unmarked registry cells and clears the mark of the
   others. *)
gc_sweep_unmarked(m) ==
  LET reg  == Range(m.registry)
      dead == {c \in reg : ~m.heap[c].gcmark}
  IN  [m EXCEPT !.freed = @ \cup dead,
                !.registry = SelectSeq(@, LAMBDA c : c \notin dead),
                !.heap = [c \in DOMAIN m.heap |->
                            IF c \in reg \ dead
                            THEN [m.heap[c] EXCEPT !.gcmark = FALSE]
                            ELSE m.heap[c]]]

(* gc_sweep: its body is empty; the collector state m is returned as it is. *)
gc_sweep(m) == m

(* lisp_clean: mark from l->global, then sweep.  live is a ghost: the cells
   whose mark bit is set when the mark phase has finished. *)
lisp_clean(m) ==
  LET h == gcmark(Global, m.heap)
  IN  gc_sweep([m EXCEPT !.heap = h,
                         !.live = {c \in 1..Len(h) : h[c].gcmark}])

-----------------------------------------------------------------------------
(* The read-evaluate-print-collect loop *)

(* The expressions the input stream may hold. *)
App(f, as) == L(<<Y(f)>> \o as)
Lambda(ps, body) == L(<<Y("lambda"), L(ps), body>>)
Define(s, v) == L(<<Y("define"), Y(s), v>>)
Quote(f) == L(<<Y("quote"), f>>)

(* Each expression has a name, by which the properties refer to it. *)
P(name, f) == [name |-> name, f |-> f]

Programs == <<
  \* (+ 1 2)
  P("add",
    App("+", <<I(1), I(2)>>)),
  \* (define a 10)
  P("defa",
    Define("a", I(10))),
  \* a
  P("a",
    Y("a")),
  \* (- a 3)
  P("suba",
    App("-", <<Y("a"), I(3)>>)),
  \* (* a 2)
  P("mula",
    App("*", <<Y("a"), I(2)>>)),
  \* (/ a 2 0)
  P("diva",
    App("/", <<Y("a"), I(2), I(0)>>)),
  \* (set nil 5)
  P("setnil",
    App("set", <<Y("nil"), I(5)>>)),
  \* (set quote 0)
  P("setq",
    App("set", <<Y("quote"), I(0)>>)),
  \* ((lambda (x y) (cons x y)) 1 (quote (2 3)))
  P("scn5",
    L(<<Lambda(<<Y("x"), Y("y")>>, App("cons", <<Y("x"), Y("y")>>)),
        I(1), Quote(L(<<I(2), I(3)>>))>>)),
  \* (begin (define mk (lambda (x) (lambda () x))) (define g (mk 5)) (g))
  P("cap0",
    App("begin", <<Define("mk", Lambda(<<Y("x")>>, Lambda(<<>>, Y("x")))),
                   Define("g", App("mk", <<I(5)>>)),
                   App("g", <<>>)>>)),
  \* (begin (define mk1 (lambda (x) (lambda (y) x))) (define g1 (mk1 5)) (g1 1))
  P("cap1",
    App("begin", <<Define("mk1", Lambda(<<Y("x")>>, Lambda(<<Y("y")>>, Y("x")))),
                   Define("g1", App("mk1", <<I(5)>>)),
                   App("g1", <<I(1)>>)>>)),
  \* zz
  P("unbound",
    Y("zz")),
  \* (zz 1)
  P("unbhead",
    App("zz", <<I(1)>>)),
  \* (1 2)
  P("nonsym",
    L(<<I(1), I(2)>>)),
  \* (if 1)
  P("arity",
    App("if", <<I(1)>>)),
  \* (+ 1 "s")
  P("type",
    App("+", <<I(1), Q(<<"s">>)>>)),
  \* (cdr 1)
  P("cdrint",
    App("cdr", <<I(1)>>)),
  \* (/ 1 0)
  P("div0",
    App("/", <<I(1), I(0)>>)),
  \* (cons (define b 1) (begin (set b 2) (quote ())))
  P("args",
    App("cons", <<Define("b", I(1)),
                  App("begin", <<App("set", <<Y("b"), I(2)>>), Quote(L(<<>>))>>)>>)),
  \* (begin (define f (lambda (p q) (define r p))) (f (define b 1) (set b 2)))
  P("proc",
    App("begin", <<Define("f", Lambda(<<Y("p"), Y("q")>>, Define("r", Y("p")))),
                   App("f", <<Define("b", I(1)), App("set", <<Y("b"), I(2)>>)>>)>>)),
  \* (begin (define v 10) (- v 3) v)
  P("keep",
    App("begin", <<Define("v", I(10)), App("-", <<Y("v"), I(3)>>), Y("v")>>))
  >>

Init ==
  /\ heap = lisp_init.heap
  /\ registry = lisp_init.registry
  /\ freed = {}
  /\ log = <<>>
  /\ out = <<>>
  /\ trace = <<>>
  /\ pc = "read"
  /\ form = ""
  /\ x = 0
  /\ evalStart = 0
  /\ live = {}
  /\ nforms = 0
  /\ io = Idle
  /\ mem = Idle
  /\ tok = Idle

Interp == [heap |-> heap, registry |-> registry, log |-> <<>>, out |-> <<>>,
           trace |-> <<>>, depth |-> 0, halt |-> "",
           ub |-> NULL, wild |-> 0, found |-> 0]

(* What a read through a NULL array can give: NULL stands for the trap,
   the others for a word that happens to point to a cell. *)
WildReads == {NULL, nil, tee}

(* sexpr_parse returned an expression, the next one of the input stream p. *)
ReadFrom(p, max) ==
  /\ pc = "read"
  /\ nforms < max
  /\ \E r \in {sexpr_parse(p.f, Interp)} :
         /\ heap' = r.st.heap
         /\ registry' = r.st.registry
         /\ x' = r.v
  /\ form' = p.name
  /\ nforms' = nforms + 1
  /\ log' = <<>>
  /\ out' = <<>>
  /\ trace' = <<>>
  /\ pc' = "eval"
  /\ UNCHANGED <<freed, evalStart, live, libvars>>

Read(i) == ReadFrom(Programs[i], MaxForms)

(* sexpr_parse returned NULL: end of the stream, lisp_repl returns. *)
ReadEnd ==
  /\ pc = "read"
  /\ pc' = "done"
  /\ UNCHANGED <<heap, registry, freed, log, out, trace, form, x, evalStart, live, nforms, libvars>>

(* x = lisp_eval(x, l->env, l) *)
Eval ==
  /\ pc = "eval"
  /\ \E u \in WildReads : \E r \in {lisp_eval(x, Env, [Interp EXCEPT !.ub = u])} :
         /\ heap' = r.st.heap
         /\ registry' = r.st.registry
         /\ log' = r.st.log
         /\ out' = r.st.out
         /\ trace' = r.st.trace
         /\ x' = r.v
         /\ pc' = IF r.st.halt # "" THEN "crashed" ELSE "print"
  /\ evalStart' = Len(heap)
  /\ UNCHANGED <<freed, form, live, nforms, libvars>>

(* A loop body that goes back to the reader after the print. *)
Show_read ==
  /\ pc = "print"
  /\ out' = Append(out, x)
  /\ pc' = "read"
  /\ UNCHANGED <<heap, registry, freed, log, trace, form, x, evalStart, live, nforms, libvars>>

(* sexpr_print(x, l->o, 0, l->e) *)
Show ==
  /\ pc = "print"
  /\ out' = Append(out, x)
  /\ pc' = "clean"
  /\ UNCHANGED <<heap, registry, freed, log, trace, form, x, evalStart, live, nforms, libvars>>

(* lisp_clean(l) *)
Clean ==
  /\ pc = "clean"
  /\ \E m \in {lisp_clean([heap |-> heap, registry |-> registry,
                             freed |-> freed, live |-> live])} :
         /\ heap' = m.heap
         /\ registry' = m.registry
         /\ freed' = m.freed
         /\ live' = m.live
  /\ pc' = "read"
  /\ UNCHANGED <<log, out, trace, form, x, evalStart, nforms, libvars>>

(* lisp_end: the sweep that no mark preceded, then mem_free of the two
   environment cells (and of the io objects and l itself, which are not
   cells). *)
lisp_end(m) == [gc_sweep(m) EXCEPT !.freed = @ \cup {Env, Global}]

(* lisp_end(l), called when lisp_repl has returned. *)
End ==
  /\ pc = "done"
  /\ \E m \in {lisp_end([heap |-> heap, registry |-> registry,
                          freed |-> freed, live |-> live])} :
         /\ heap' = m.heap
         /\ registry' = m.registry
         /\ freed' = m.freed
         /\ live' = m.live
  /\ pc' = "ended"
  /\ UNCHANGED <<log, out, trace, form, x, evalStart, nforms, libvars>>

Next ==
  \/ \E i \in 1..Len(Programs) : Read(i)
  \/ ReadEnd
  \/ Eval
  \/ Show
  \/ Clean
  \/ End

Spec == Init /\ [][Next]_vars

-----------------------------------------------------------------------------
(* A second input stream: expressions that are each evaluated by a new
   interpreter, one for every case of the special forms and primitives. *)

MaxUnit == 1

Begin(fs) == App("begin", fs)
Set(s, v) == App("set", <<Y(s), v>>)
If(t, c, a) == App("if", <<t, c, a>>)

Forms == <<
  \* (begin (define c 0) (set c 5) c)
  P("setglobal", Begin(<<Define("c", I(0)), Set("c", I(5)), Y("c")>>)),
  \* (begin (define f (lambda (p) (begin (set p 7) p))) (f 1))
  P("setenv", Begin(<<Define("f", Lambda(<<Y("p")>>, Begin(<<Set("p", I(7)), Y("p")>>))),
                      App("f", <<I(1)>>)>>)),
  \* (begin (define c 1) (define c 2) (set c 9) c)
  P("setnewest", Begin(<<Define("c", I(1)), Define("c", I(2)), Set("c", I(9)), Y("c")>>)),
  \* (begin (define p 1) (define f (lambda (p) (set p 7))) (f 2) p)
  P("setshadow", Begin(<<Define("p", I(1)),
                         Define("f", Lambda(<<Y("p")>>, Set("p", I(7)))),
                         App("f", <<I(2)>>), Y("p")>>)),
  \* (set u (define w 1))
  P("setunbound", Set("u", Define("w", I(1)))),
  \* (if (define w 1) 2)
  P("arity_if_short", App("if", <<Define("w", I(1)), I(2)>>)),
  \* (if 1 2 3 (define w 1))
  P("arity_if_long", App("if", <<I(1), I(2), I(3), Define("w", I(1))>>)),
  \* (quote)
  P("arity_quote_short", App("quote", <<>>)),
  \* (quote a b)
  P("arity_quote_long", App("quote", <<Y("a"), Y("b")>>)),
  \* (set nil)
  P("arity_set_short", App("set", <<Y("nil")>>)),
  \* (set nil (define w 1) 2)
  P("arity_set_long", App("set", <<Y("nil"), Define("w", I(1)), I(2)>>)),
  \* (define w)
  P("arity_define_short", App("define", <<Y("w")>>)),
  \* (define w (define v 1) 2)
  P("arity_define_long", App("define", <<Y("w"), Define("v", I(1)), I(2)>>)),
  \* (lambda (x))
  P("arity_lambda_short", App("lambda", <<L(<<Y("x")>>)>>)),
  \* (lambda (x) (define w 1) x)
  P("arity_lambda_long", App("lambda", <<L(<<Y("x")>>), Define("w", I(1)), Y("x")>>)),
  \* (if () (define t 1) (define e 2))
  P("if_nil", If(L(<<>>), Define("t", I(1)), Define("e", I(2)))),
  \* (if nosuch (define t 1) (define e 2))
  P("if_unbound", If(Y("nosuch"), Define("t", I(1)), Define("e", I(2)))),
  \* (if 0 (define t 1) (define e 2))
  P("if_zero", If(I(0), Define("t", I(1)), Define("e", I(2)))),
  \* (if "" (define t 1) (define e 2))
  P("if_string", If(Q(<<>>), Define("t", I(1)), Define("e", I(2)))),
  \* (if (quote ()) (define t 1) (define e 2))
  P("if_quoted", If(Quote(L(<<>>)), Define("t", I(1)), Define("e", I(2)))),
  \* (if (define c 3) (define t 1) (define e 2))
  P("if_effect", If(Define("c", I(3)), Define("t", I(1)), Define("e", I(2)))),
  \* (if (if () 1 ()) (define t 1) (if 0 (define e 2) (define t 3)))
  P("if_nested", If(If(L(<<>>), I(1), L(<<>>)), Define("t", I(1)),
                    If(I(0), Define("e", I(2)), Define("t", I(3))))),
  \* (begin)
  P("begin_none", Begin(<<>>)),
  \* (begin (define a 1))
  P("begin_one", Begin(<<Define("a", I(1))>>)),
  \* (begin (define a 1) (define b a) (define a 3) b)
  P("begin_four", Begin(<<Define("a", I(1)), Define("b", Y("a")), Define("a", I(3)), Y("b")>>)),
  \* (begin (begin) (begin 4 (begin 5 6)))
  P("begin_nested", Begin(<<Begin(<<>>), Begin(<<I(4), Begin(<<I(5), I(6)>>)>>)>>)),
  \* (cons 1 (quote (2 3)))
  P("cons_list", App("cons", <<I(1), Quote(L(<<I(2), I(3)>>))>>)),
  \* (cons 1 (quote ()))
  P("cons_empty", App("cons", <<I(1), Quote(L(<<>>))>>)),
  \* (car (cons (quote (7)) (quote (8))))
  P("cons_car", App("car", <<App("cons", <<Quote(L(<<I(7)>>)), Quote(L(<<I(8)>>))>>)>>)),
  \* (begin (define b (quote (1 2))) (length (cons b b)))
  P("cons_self", Begin(<<Define("b", Quote(L(<<I(1), I(2)>>))),
                         App("length", <<App("cons", <<Y("b"), Y("b")>>)>>)>>)),
  \* (car (quote (4 5)))
  P("car_list", App("car", <<Quote(L(<<I(4), I(5)>>))>>)),
  \* (car (quote ()))
  P("car_empty", App("car", <<Quote(L(<<>>))>>)),
  \* (/ 8 2 0)
  P("div_zero_last", App("/", <<I(8), I(2), I(0)>>)),
  \* (/ 8 0 2)
  P("div_zero_first", App("/", <<I(8), I(0), I(2)>>)),
  \* (/ 0 0)
  P("div_zero_zero", App("/", <<I(0), I(0)>>)),
  \* (begin (define z 0) (/ z 5 z))
  P("div_zero_alias", Begin(<<Define("z", I(0)), App("/", <<Y("z"), I(5), Y("z")>>)>>)),
  \* (mod 7 0)
  P("mod_zero", App("mod", <<I(7), I(0)>>)),
  \* (mod 7 -2)
  P("mod_neg", App("mod", <<I(7), I(-2)>>)),
  \* (/ 100 5 2)
  P("div_pos", App("/", <<I(100), I(5), I(2)>>)),
  \* (/ 7 2)
  P("div_trunc", App("/", <<I(7), I(2)>>)),
  \* (/ 6 -2)
  P("div_neg_divisor", App("/", <<I(6), I(-2)>>)),
  \* (/ -6 2)
  P("div_neg_dividend", App("/", <<I(-6), I(2)>>)),
  \* (/ -7 -2)
  P("div_neg_both", App("/", <<I(-7), I(-2)>>)),
  \* (begin (define f (lambda (p) p)) (f 1) (f 2))
  P("proc_twice", Begin(<<Define("f", Lambda(<<Y("p")>>, Y("p"))),
                          App("f", <<I(1)>>), App("f", <<I(2)>>)>>)),
  \* (begin (define f (lambda (n) (if n (begin (f ()) n) 0))) (f 5))
  P("proc_recursive",
    Begin(<<Define("f", Lambda(<<Y("n")>>,
                               If(Y("n"), Begin(<<App("f", <<L(<<>>)>>), Y("n")>>), I(0)))),
            App("f", <<I(5)>>)>>)),
  \* (begin (define p 1) (define p 2) (define f (lambda (p q) (begin q u p))) (f 3 p))
  P("find_shadow",
    Begin(<<Define("p", I(1)), Define("p", I(2)),
            Define("f", Lambda(<<Y("p"), Y("q")>>, Begin(<<Y("q"), Y("u"), Y("p")>>))),
            App("f", <<I(3), Y("p")>>)>>)),
  \* (nth 0 (quote (7 8)))   (nth 1 (quote (7 8)))   (nth -1 (quote (7 8)))
  P("nth_first", App("nth", <<I(0), Quote(L(<<I(7), I(8)>>))>>)),
  P("nth_last", App("nth", <<I(1), Quote(L(<<I(7), I(8)>>))>>)),
  P("nth_neg", App("nth", <<I(-1), Quote(L(<<I(7), I(8)>>))>>)),
  \* (nth 2 (quote (7 8)))   (nth 3 (quote (7 8)))   (nth -3 (quote (7 8)))
  P("nth_len", App("nth", <<I(2), Quote(L(<<I(7), I(8)>>))>>)),
  P("nth_above", App("nth", <<I(3), Quote(L(<<I(7), I(8)>>))>>)),
  P("nth_below", App("nth", <<I(-3), Quote(L(<<I(7), I(8)>>))>>)),
  \* (nth 0 (quote ()))   (nth -2 "ab")   (nth 2 "ab")
  P("nth_empty", App("nth", <<I(0), Quote(L(<<>>))>>)),
  P("nth_str_neg", App("nth", <<I(-2), Q(<<"a", "b">>)>>)),
  P("nth_str_len", App("nth", <<I(2), Q(<<"a", "b">>)>>))
  >>

ReadForm(i) == ReadFrom(Forms[i], MaxUnit)

NextForms ==
  \/ \E i \in 1..Len(Forms) : ReadForm(i)
  \/ ReadEnd
  \/ Eval
  \/ Show
  \/ Clean
  \/ End

SpecForms == Init /\ [][NextForms]_vars

-----------------------------------------------------------------------------
(* Properties *)

Children(h, c) == IF h[c].type \in {S_LIST, S_PROC} THEN Range(h[c].list) ELSE {}

RECURSIVE ReachFrom(_, _, _)
ReachFrom(h, frontier, seen) ==
  IF frontier = {} THEN seen
  ELSE LET next == (UNION {Children(h, c) : c \in frontier}) \ (seen \cup frontier)
       IN  ReachFrom(h, next, seen \cup frontier)

(* The cells reachable from a set of cells, those cells included. *)
Reach(h, roots) == ReachFrom(h, roots, {})

Markers == {s_if, s_lambda, s_begin, s_define, s_set, s_quote}
Roots   == {Env, Global, nil, tee} \cup Markers

(* lisp_clean has run for the expression read last. *)
Cleaned == pc \in {"read", "done"} /\ nforms > 0

(* C1: after every lisp_clean, the first and every later one, each cell
   referenced from global or env, directly or through other cells, is still
   on the heap registry and has not been freed.  The two environment cells
   themselves come from mem_calloc and were never on the registry. *)
C1_GCSoundness ==
  Cleaned => \A c \in Reach(heap, {Global, Env}) \ {Global, Env} :
               c \in Range(registry) /\ c \notin freed

(* A second lisp_clean has run and global holds a binding made by define. *)
C1_Witness ==
  /\ Cleaned
  /\ nforms >= 2
  /\ Len(heap[Global].list) > Len(lisp_init.heap[Global].list)

(* C3: after the mark phase of lisp_clean the nil and t singletons and the
   six special-form markers are marked, and they are never freed. *)
C3_SingletonsMarked ==
  /\ ({nil, tee} \cup Markers) \cap freed = {}
  /\ Cleaned => ({nil, tee} \cup Markers) \subseteq live

(* C4: after lisp_clean every cell allocated during the evaluation that just
   finished and not reachable from a root is off the registry and freed. *)
C4_GarbageFreed ==
  Cleaned => \A c \in (evalStart + 1)..Len(heap) :
               c \notin Reach(heap, Roots) => c \notin Range(registry) /\ c \in freed

(* C5: after lisp_clean every surviving cell, registered or root, has its
   mark bit cleared. *)
C5_MarksCleared ==
  Cleaned => \A c \in 1..Len(heap) : c \notin freed => ~heap[c].gcmark


Printed == pc = "print"
Events(kind) == {k \in DOMAIN trace : trace[k].ev = kind}

(* The cell c holds the value the text f denotes. *)
RECURSIVE Matches(_, _, _)
Matches(h, c, f) ==
  CASE f.k = "int"  -> h[c].type = S_INTEGER /\ h[c].integer = f.i
    [] f.k = "sym"  -> h[c].type = S_SYMBOL /\ h[c].symbol = f.s
    [] f.k = "str"  -> h[c].type = S_STRING /\ h[c].string = f.l
    [] f.k = "list" -> /\ h[c].type = S_LIST
                       /\ Len(h[c].list) = Len(f.l)
                       /\ \A i \in 1..Len(f.l) : Matches(h, h[c].list[i], f.l[i])

(* C2: a Proc made by lambda inside a procedure body and applied after that
   call has returned resolves its free variable to the binding visible where
   the lambda was evaluated, for zero parameters as for one: both programs
   captured x = 5. *)
C2_LexicalCapture ==
  Printed /\ form \in {"cap0", "cap1"} => Matches(heap, x, I(5))

(* C6: ((lambda (x y) (cons x y)) 1 (quote (2 3))) evaluates to (1 2 3). *)
C6_LambdaHead ==
  Printed /\ form = "scn5" => Matches(heap, x, L(<<I(1), I(2), I(3)>>))

(* What the define record says about the global environment, whatever the
   form returned: exactly one pair [s, eval(v)] was appended. *)
DefineAppends(e) ==
  /\ e.gafter = Append(e.gbefore, e.pair)
  /\ e.pair \notin Range(e.gbefore)
  /\ e.pairlist = <<e.sym, e.v>>

(* C7 as stated: (define s v) appends exactly one pair [s, eval(v)] to the
   global environment and returns that new pair. *)
C7_DefineReturnsPair ==
  \A k \in Events("define") : DefineAppends(trace[k]) /\ trace[k].ret = trace[k].pair

(* C7 amended: (define s v) appends exactly one pair [s, eval(v)] to the
   global environment, in any environment, and returns eval(v), the value. *)
C7_DefineReturnsValue ==
  \A k \in Events("define") : DefineAppends(trace[k]) /\ trace[k].ret = trace[k].v

(* A define ran inside a procedure body, in an environment other than env,
   and another one at top level. *)
C7_Witness ==
  /\ Printed
  /\ \E k \in Events("define") : trace[k].env # Env
  /\ \E k \in Events("define") : trace[k].env = Env

Arith == {"primop_add", "primop_sub", "primop_prod", "primop_div", "primop_mod",
          "primop_numeq"}

(* C8: every argument cell of +, -, *, /, mod and = holds the same integer
   after the call as before it, so v still evaluates to 10 after (- v 3). *)
C8_ArgsUnchanged ==
  /\ \A k \in Events("prim") :
       trace[k].name \in Arith => trace[k].after = trace[k].before
  /\ Printed /\ form = "keep" => Matches(heap, x, I(10))

(* The expressions that hold one recoverable user error each. *)
ErrForms == {"unbound", "unbhead", "nonsym", "arity", "type", "cdrint", "div0"}

(* C9: a form with one recoverable user error writes exactly one diagnostic
   and yields nil. *)
C9_OneDiagnostic ==
  Printed /\ form \in ErrForms => Len(log) = 1 /\ x = nil

(* The record of the evaluation that an apply record belongs to. *)
Opening(k) ==
  LET js == {j \in 1..(k - 1) : /\ trace[j].ev = "eval"
                                /\ trace[j].x = trace[k].x
                                /\ trace[j].d = trace[k].d - 1}
  IN  CHOOSE j \in js : \A i \in js : i <= j

Between(j, k, kind, d) ==
  SelectSeq(SubSeq(trace, j + 1, k - 1), LAMBDA e : e.ev = kind /\ e.d = d)

(* C10: in an application each argument is evaluated exactly once, left to
   right, into a fresh List without the head, and all of that is over when
   the primitive or the Proc body starts. *)
C10_ArgsLeftToRight ==
  \A k \in Events("apply") :
    LET e    == trace[k]
        j    == Opening(k)
        evs  == Between(j, k, "eval", e.d)
        rets == Between(j, k, "ret", e.d)
    IN  /\ [i \in 1..Len(evs) |-> evs[i].x] = e.xs
        /\ [i \in 1..Len(rets) |-> rets[i].v] = <<e.proc>> \o e.argv
        /\ e.args > e.h0
        /\ \A i \in (j + 1)..(k - 1) : trace[i].ev = "prim" => trace[i].d > e.d

(* A Proc was applied to two arguments whose evaluation had side effects. *)
C10_Witness ==
  /\ Printed
  /\ form = "proc"
  /\ \E k \in Events("apply") :
       heap[trace[k].proc].type = S_PROC /\ Len(trace[k].argv) = 2

(* The index of the newest pair that binds name, 0 when there is none. *)
Newest(keys, name) ==
  LET is == {i \in 1..Len(keys) : keys[i] = name}
  IN  IF is = {} THEN 0 ELSE CHOOSE i \in is : \A j \in is : j <= i

(* C11: (set s v) with s bound replaces the value slot of the newest pair
   that binds s, looked up in env and failing that in global, by eval(v),
   returns the new value and adds or removes no pair; with s unbound it
   writes one diagnostic, returns nil, does not evaluate v and leaves both
   environments as they were. *)
C11_Set ==
  /\ \A k \in Events("set") :
       LET e  == trace[k]
           ie == Newest(e.ekeys, e.name)
           ig == Newest(e.gkeys, e.name)
       IN  /\ ie > 0 \/ ig > 0
           /\ e.pair = IF ie > 0 THEN e.el[ie] ELSE e.gl[ig]
           /\ e.pairlist = [e.before EXCEPT ![2] = e.v]
           /\ e.ret = e.v
           /\ e.el1 = e.elv /\ e.gl1 = e.glv
           /\ trace[k + 1].ev = "ret" /\ trace[k + 1].x = e.x /\ trace[k + 1].v = e.v
  /\ \A k \in Events("set unbound") :
       LET e == trace[k]
           j == Opening(k)
       IN  /\ Newest(e.ekeys, e.name) = 0 /\ Newest(e.gkeys, e.name) = 0
           /\ k = j + 3 /\ trace[j + 1].ev = "eval" /\ trace[j + 2].ev = "ret"
           /\ trace[k + 1].ev = "ret" /\ trace[k + 1].x = e.x /\ trace[k + 1].v = nil
           /\ trace[k + 1].nlog = trace[j].nlog + 1
           /\ trace[k + 1].el = trace[j].el /\ trace[k + 1].gl = trace[j].gl

(* A set inside a procedure body replaced the parameter's pair while global
   binds the same name. *)
C11_Witness ==
  /\ Printed
  /\ form = "setshadow"
  /\ \E k \in Events("set") :
       Newest(trace[k].ekeys, trace[k].name) > 0 /\ Newest(trace[k].gkeys, trace[k].name) > 0

(* The list length each special form with a fixed shape requires. *)
FormLen ==
  [m \in {s_if, s_quote, s_set, s_define, s_lambda} |->
     CASE m = s_if -> 4 [] m = s_quote -> 2 [] OTHER -> 3]

(* Record j is the entry to a list whose head evaluated, in record j + 2, to
   the marker of such a form, and the list has another length. *)
ArityErrorAt(j) ==
  /\ j + 2 <= Len(trace)
  /\ trace[j].ev = "eval"
  /\ heap[trace[j].x].type = S_LIST
  /\ Len(heap[trace[j].x].list) > 0
  /\ trace[j + 1].ev = "eval" /\ trace[j + 1].x = heap[trace[j].x].list[1]
  /\ heap[trace[j + 1].x].type = S_SYMBOL
  /\ trace[j + 2].ev = "ret" /\ trace[j + 2].x = trace[j + 1].x
  /\ trace[j + 2].v \in DOMAIN FormLen
  /\ Len(heap[trace[j].x].list) # FormLen[trace[j + 2].v]

(* C12: if, quote, set, define or lambda with a wrong number of elements
   writes exactly one diagnostic, returns nil, evaluates none of its
   arguments and leaves env and global as they were. *)
C12_ArityErrors ==
  \A j \in DOMAIN trace :
    ArityErrorAt(j) =>
      /\ j + 3 <= Len(trace)
      /\ trace[j + 3].ev = "ret" /\ trace[j + 3].x = trace[j].x
      /\ trace[j + 3].v = nil
      /\ trace[j + 3].nlog = trace[j].nlog + 1
      /\ trace[j + 3].el = trace[j].el /\ trace[j + 3].gl = trace[j].gl

(* A define of four elements, whose third element is itself a define, has
   been evaluated. *)
C12_Witness ==
  Printed /\ form = "arity_define_long" /\ \E j \in DOMAIN trace : ArityErrorAt(j)

(* The record that closes the evaluation opened by record j. *)
Close(j) ==
  LET ks == {k \in (j + 1)..Len(trace) : /\ trace[k].ev = "ret"
                                          /\ trace[k].d = trace[j].d}
  IN  IF ks = {} THEN 0 ELSE CHOOSE k \in ks : \A i \in ks : k <= i

(* Record j is the entry to a list of n elements whose head evaluated, in
   record j + 2, to the marker m. *)
FormAt(j, m, n) ==
  /\ j + 2 <= Len(trace)
  /\ trace[j].ev = "eval"
  /\ heap[trace[j].x].type = S_LIST
  /\ Len(heap[trace[j].x].list) = n
  /\ trace[j + 1].ev = "eval" /\ trace[j + 1].x = heap[trace[j].x].list[1]
  /\ heap[trace[j + 1].x].type = S_SYMBOL
  /\ trace[j + 2].ev = "ret" /\ trace[j + 2].x = trace[j + 1].x
  /\ trace[j + 2].v = m

(* C13: (if test c a) evaluates test once and then exactly one branch: a
   when the test's value is the nil singleton, c for every other value, 0,
   the empty string and a quoted empty list included; its value is that
   branch's value. *)
C13_IfTotal ==
  \A j \in DOMAIN trace :
    FormAt(j, s_if, 4) =>
      LET k    == Close(j)
          xs   == heap[trace[j].x].list
          evs  == Between(j, k, "eval", trace[j].d + 1)
          rets == Between(j, k, "ret", trace[j].d + 1)
      IN  /\ k > 0 /\ trace[k].x = trace[j].x
          /\ Len(evs) = 3 /\ Len(rets) = 3
          /\ evs[2].x = xs[2] /\ rets[2].x = xs[2]
          /\ evs[3].x = IF rets[2].v = nil THEN xs[4] ELSE xs[3]
          /\ rets[3].x = evs[3].x
          /\ trace[k].v = rets[3].v

(* A test that is an empty quoted list chose the consequent, and only the
   consequent's define reached global. *)
C13_Witness ==
  /\ Printed
  /\ form = "if_quoted"
  /\ FormAt(1, s_if, 4)
  /\ trace[Close(1) - 1].x = heap[trace[1].x].list[3]
  /\ \E i \in DOMAIN KeysOf(Interp, Global) : KeysOf(Interp, Global)[i] = "t"
  /\ \A i \in DOMAIN KeysOf(Interp, Global) : KeysOf(Interp, Global)[i] # "e"

(* Record j is the entry to a begin form. *)
BeginAt(j) == FormAt(j, s_begin, Len(heap[trace[j].x].list))

(* C14: (begin e1 ... en) evaluates e1..en once each, left to right, and
   returns the value of en; (begin) returns nil and evaluates nothing but
   its head. *)
C14_BeginOrder ==
  \A j \in DOMAIN trace :
    BeginAt(j) =>
      LET k    == Close(j)
          xs   == heap[trace[j].x].list
          evs  == Between(j, k, "eval", trace[j].d + 1)
          rets == Between(j, k, "ret", trace[j].d + 1)
      IN  /\ k > 0 /\ trace[k].x = trace[j].x
          /\ [i \in 1..Len(evs) |-> evs[i].x] = xs
          /\ [i \in 1..Len(rets) |-> rets[i].x] = xs
          /\ trace[k].v = IF Len(xs) = 1 THEN nil ELSE rets[Len(xs)].v
          /\ Len(xs) = 1 => k = j + 3 /\ trace[k].nlog = trace[j].nlog

(* A begin of four expressions, the second of which reads what the first
   defined and the third redefines, returned the fourth's value 1. *)
C14_Witness ==
  /\ Printed
  /\ form = "begin_four"
  /\ BeginAt(1) /\ Len(heap[trace[1].x].list) = 5
  /\ heap[x].type = S_INTEGER /\ heap[x].integer = 1
  /\ \E i, i2 \in DOMAIN KeysOf(Interp, Global) :
        i < i2 /\ KeysOf(Interp, Global)[i] = "a" /\ KeysOf(Interp, Global)[i2] = "a"

(* The records of calls of the primitive f. *)
Calls(f) == {k \in Events("prim") : trace[k].name = f}

(* C15: cons of a value a and a List b, the empty List included, returns a
   List allocated by the call that holds a followed by b's elements, so its
   length is 1 + length(b) and car of it is a; b is as it was. *)
C15_Cons ==
  /\ \A k \in Calls("primop_cons") :
       LET e == trace[k]
       IN  Len(e.argv) = 2 /\ heap[e.argv[2]].type = S_LIST =>
             /\ e.v > e.h0
             /\ heap[e.v].type = S_LIST
             /\ e.vlist = <<e.argv[1]>> \o e.lists0[2]
             /\ Len(e.vlist) = 1 + Len(e.lists0[2])
             /\ e.lists1[2] = e.lists0[2]
  /\ \A k \in Calls("primop_car") : \A k0 \in Calls("primop_cons") :
       /\ k0 < k /\ trace[k].argv = <<trace[k0].v>>
       /\ Len(trace[k0].argv) = 2 /\ heap[trace[k0].argv[2]].type = S_LIST
       => trace[k].v = trace[k0].argv[1]

(* cons was given an empty List that is not nil and returned a List of one
   element. *)
C15_Witness ==
  /\ Printed
  /\ form = "cons_empty"
  /\ \E k \in Calls("primop_cons") :
       /\ Len(trace[k].argv) = 2
       /\ heap[trace[k].argv[2]].type = S_LIST /\ trace[k].argv[2] # nil
       /\ trace[k].lists0[2] = <<>>
       /\ Len(trace[k].vlist) = 1

(* C16: car of one List argument returns the List's first element, and for
   a List of length 0 it returns nil, reads no element and the interpreter
   goes on to print. *)
C16_CarEmpty ==
  \A k \in Calls("primop_car") :
    LET e == trace[k]
    IN  Len(e.argv) = 1 /\ heap[e.argv[1]].type = S_LIST =>
          /\ pc # "crashed"
          /\ e.nwild = 0
          /\ e.v = IF e.lists0[1] = <<>> THEN nil ELSE e.lists0[1][1]

(* The call of record k got Integer arguments only, at least n of them. *)
IntArgs(k, n) ==
  /\ Len(trace[k].argv) >= n
  /\ \A i \in DOMAIN trace[k].argv : heap[trace[k].argv[i]].type = S_INTEGER

(* C17: / with Integer arguments one of whose divisors is 0, and mod with
   an Integer second argument 0, write one diagnostic and return nil, and
   the interpreter goes on: no division by zero was executed. *)
C17_DivZero ==
  /\ \A k \in Calls("primop_div") :
       IntArgs(k, 2) /\ (\E i \in 2..Len(trace[k].argv) : trace[k].before[i] = 0) =>
         trace[k].v = nil /\ trace[k].nlog1 = trace[k].nlog + 1 /\ pc # "crashed"
  /\ \A k \in Calls("primop_mod") :
       IntArgs(k, 2) /\ Len(trace[k].argv) = 2 /\ trace[k].before[2] = 0 =>
         trace[k].v = nil /\ trace[k].nlog1 = trace[k].nlog + 1 /\ pc # "crashed"

(* 8 was divided by 2 and the next divisor was 0. *)
C17_Witness ==
  /\ Printed
  /\ form = "div_zero_last"
  /\ x = nil /\ Len(log) = 1
  /\ \E k \in Calls("primop_div") :
       trace[k].before = <<8, 2, 0>> /\ trace[k].after = <<4, 2, 0>>

(* ((a / b1) / b2) ... / bn with C's signed division. *)
RECURSIVE Quotient(_)
Quotient(ns) ==
  IF Len(ns) = 1 THEN ns[1]
  ELSE Quotient(<<CQuot(ns[1], ns[2])>> \o SubSeq(ns, 3, Len(ns)))

(* C18: / with Integer arguments and non-zero divisors returns the signed
   truncating quotient ((a / b1) / b2) ... / bn, for negative operands too:
   (/ 6 -2) is -3. *)
C18_SignedQuotient ==
  \A k \in Calls("primop_div") :
    IntArgs(k, 2) /\ (\A i \in 2..Len(trace[k].argv) : trace[k].before[i] # 0) =>
      /\ heap[trace[k].v].type = S_INTEGER
      /\ trace[k].vint = Quotient(trace[k].before)

(* One step of the interpreter in its loop order: a read takes the next
   expression or ends the loop, the evaluation follows the read, the print
   of the evaluated value follows the evaluation, the collection follows
   the print and only then the reader runs again; the collector's ghost
   state changes in a collection (or in lisp_end) only. *)
ReplStep ==
  /\ pc = "read" =>
       /\ pc' \in {"eval", "done"}
       /\ nforms' = IF pc' = "eval" THEN nforms + 1 ELSE nforms
       /\ live' = live
  /\ pc = "eval" =>
       /\ pc' \in {"print", "crashed"}
       /\ nforms' = nforms /\ live' = live /\ out' = out
  /\ pc = "print" =>
       /\ pc' = "clean"
       /\ out' = Append(out, x)
       /\ nforms' = nforms /\ live' = live /\ heap' = heap
  /\ pc = "clean" =>
       /\ pc' = "read"
       /\ nforms' = nforms /\ out' = out
       /\ live' = {c \in DOMAIN heap' : heap'[c].gcmark}
  /\ pc = "done" =>
       /\ pc' = "ended"
       /\ nforms' = nforms /\ out' = out
  /\ pc \notin {"crashed", "ended"}

(* C19: lisp_repl handles one expression at a time in the order read,
   evaluate, print, collect: no collection between the read and the print
   of an expression, no read of the next expression before the collection,
   and when the reader returns nothing the loop is left for good. *)
C19_ReplOrder == [][ReplStep]_vars

(* The loop was left after two expressions had been read, evaluated,
   printed and collected. *)
C19_Witness == pc = "done" /\ nforms = 2 /\ Len(out) = 1 /\ live # {}

(* C20: after lisp_end the heap registry is empty and every cell that
   gc_calloc registered, that is every cell but the two environments, has
   been freed. *)
C20_EndFreesAll ==
  pc = "ended" =>
    /\ registry = <<>>
    /\ \A c \in DOMAIN heap \ {Global, Env} : c \in freed

(* C21: closing a stream never closes stdin, stdout or stderr. *)
C21_StdStreamsStayOpen ==
  \A h \in {"stdin", "stdout", "stderr"} : io.open[h]

(* C22: ungetc(c) on a stream without a pending byte stores c and arms the
   pushback; the next getc returns c, disarms it and takes nothing from the
   source; an ungetc while a byte is pending returns the end-of-stream
   sentinel and leaves that byte as it is. *)
C22_Pushback ==
  [][/\ io'.op = "ungetc" /\ ~io'.exited /\ ~io.ungetc =>
          io'.ungetc /\ io'.c = io'.arg[1]
     /\ io'.op = "ungetc" /\ ~io'.exited /\ io.ungetc =>
          io'.ret = EOF /\ io'.ungetc /\ io'.c = io.c
     /\ io'.op = "getc" /\ ~io'.exited /\ io.ungetc =>
          /\ io'.ret = io.c /\ ~io'.ungetc
          /\ io'.position = io.position /\ io'.src = io.src]_vars

(* A getc on a string stream returned a byte that had been pushed back,
   with the string still unread. *)
C22_Witness ==
  /\ io.type = "IO_STRING_IN_E" /\ io.op = "getc" /\ io.ret = 99
  /\ io.position = 0 /\ ~io.ungetc

(* C23: puts returns the number of bytes it wrote, which are the bytes of s
   before the NUL, or the end-of-stream sentinel when a putc failed. *)
C23_PutsCount ==
  io.op = "puts" /\ ~io.exited =>
    IF io.wrote = Len(io.arg) THEN io.ret = io.wrote ELSE io.ret = EOF

(* C24: the number of blocks the wrappers have returned and that were not
   freed never exceeds MAX_ALLOCS. *)
C24_AllocBound == mem.outstanding <= MAX_ALLOCS

-----------------------------------------------------------------------------
(* util.c: is_number *)

(* Bound: the length of the tokens given to is_number. *)
MaxTok == 3

(* A span that takes the whole string. *)
strspn_all(buf, accept) == Len(buf)

(* strspn: the length of the longest prefix of buf made of bytes of accept. *)
RECURSIVE strspn(_, _)
strspn(buf, accept) ==
  IF buf = <<>> \/ Head(buf) \notin accept THEN 0 ELSE 1 + strspn(Tail(buf), accept)

(* is_number: conv is cut to 8, 10 or 22 characters by the NUL stored into
   it; buf moves past a sign and past 0x. *)
is_number(buf) ==
  LET conv(n) == Range(SubSeq(<<"0", "1", "2", "3", "4", "5", "6", "7", "8", "9",
                               "a", "b", "c", "d", "e", "f",
                               "A", "B", "C", "D", "E", "F">>, 1, n))
      b1  == IF CharAt(buf, 0) \in {"-", "+"} THEN Tail(buf) ELSE buf
      hex == CharAt(b1, 0) = "0" /\ CharAt(b1, 1) \in {"x", "X"}
      tab == IF CharAt(b1, 0) = "0" THEN (IF hex THEN conv(22) ELSE conv(8)) ELSE conv(10)
      b2  == IF hex THEN SubSeq(b1, 3, Len(b1)) ELSE b1
  IN  IF CharAt(buf, 0) = NUL THEN 0
      ELSE IF CharAt(b1, 0) = NUL THEN 0
      ELSE IF CharAt(b2, 0) = NUL THEN 0
      ELSE IF CharAt(b2, strspn(b2, tab)) = NUL THEN 1 ELSE 0

(* Every token of at most MaxTok characters over signs, digits, hex letters
   and x. *)
InitNum ==
  /\ NoLisp
  /\ io = Idle
  /\ mem = Idle
  /\ \E n \in 0..MaxTok :
        \E t \in [1..n -> {"+", "-", "0", "1", "7", "8", "9", "a", "f", "A", "F", "x", "X"}] :
          tok = [buf |-> t, ret |-> 0, done |-> FALSE]

(* The reader asks is_number about the token. *)
NextNum ==
  /\ ~tok.done
  /\ tok' = [tok EXCEPT !.ret = is_number(tok.buf), !.done = TRUE]
  /\ UNCHANGED <<lispvars, io, mem>>

SpecNum == InitNum /\ [][NextNum]_vars

(* t is a word of [+-]?(0|0[xX][0-9a-fA-F]+|[1-9][0-9]*|0[0-7]+). *)
InLanguage(t) ==
  LET b   == IF t # <<>> /\ Head(t) \in {"+", "-"} THEN Tail(t) ELSE t
      oct == {"0", "1", "2", "3", "4", "5", "6", "7"}
      dec == oct \cup {"8", "9"}
      hex == dec \cup {"a", "b", "c", "d", "e", "f", "A", "B", "C", "D", "E", "F"}
  IN  \/ b = <<"0">>
      \/ Len(b) >= 3 /\ b[1] = "0" /\ b[2] \in {"x", "X"} /\ \A i \in 3..Len(b) : b[i] \in hex
      \/ Len(b) >= 1 /\ b[1] \in dec \ {"0"} /\ \A i \in 2..Len(b) : b[i] \in dec
      \/ Len(b) >= 2 /\ b[1] = "0" /\ \A i \in 2..Len(b) : b[i] \in oct

(* C25: is_number answers non-zero exactly for the tokens that are an
   optionally signed 0, hexadecimal with 0x, decimal without a leading 0, or
   octal with a leading 0; the empty token, a lone sign and a lone 0x are
   not numbers. *)
C25_IsNumber ==
  tok.done => ((tok.ret # 0) <=> InLanguage(tok.buf))

(* A signed octal token was accepted. *)
C25_Witness == tok.done /\ tok.buf = <<"-", "0", "7">> /\ tok.ret # 0

(* C26: when the application of a Proc returns, the List of its captured
   environment holds the elements it held before the call, so the parameter
   n read after the nested call (f ()) is still the 5 of the outer call. *)
C26_CapturedEnvUnchanged ==
  /\ \A k \in Events("applied") : trace[k].el1 = trace[k].el
  /\ Printed /\ form = "proc_recursive" => Matches(heap, x, I(5))

(* C27: the evaluation of a symbol finds the pair of highest index in env
   that binds its name, failing that the pair of highest index in global,
   failing that nil; so a parameter hides a global of the same name and the
   later of two defines is the one found. *)
C27_Find ==
  \A j \in DOMAIN trace :
    trace[j].ev = "eval" /\ heap[trace[j].x].type = S_SYMBOL =>
      LET e  == trace[j]
          ek == [i \in DOMAIN e.el |-> heap[heap[e.el[i]].list[1]].symbol]
          gk == [i \in DOMAIN e.gl |-> heap[heap[e.gl[i]].list[1]].symbol]
          ie == Newest(ek, heap[e.x].symbol)
          ig == Newest(gk, heap[e.x].symbol)
      IN  /\ j + 1 <= Len(trace)
          /\ trace[j + 1].ev = "ret" /\ trace[j + 1].x = e.x
          /\ trace[j + 1].pair = IF ie > 0 THEN e.el[ie]
                                  ELSE IF ig > 0 THEN e.gl[ig] ELSE nil
          /\ ie = 0 /\ ig = 0 => trace[j + 1].v = nil

(* In a procedure body p was found in env while global binds p twice, q in
   env only and u nowhere; the argument p was found in global, the later of
   its two pairs; the body's value is 3. *)
C27_Witness ==
  /\ Printed
  /\ form = "find_shadow"
  /\ Matches(heap, x, I(3))
  /\ \E j \in DOMAIN trace :
        /\ trace[j].ev = "eval" /\ heap[trace[j].x].type = S_SYMBOL
        /\ heap[trace[j].x].symbol = "p"
        /\ trace[j + 1].pair \in Range(trace[j].el)
        /\ Cardinality({i \in DOMAIN trace[j].gl :
                          heap[heap[trace[j].gl[i]].list[1]].symbol = "p"}) = 2

(* C28: the cells whose mark bit the mark phase of lisp_clean sets, by its
   call gcmark(global), are exactly the cells that were unmarked before the
   call and are reachable from global through List elements and through the
   params, body and captured env of a Proc. *)
C28_MarkExact ==
  [][pc = "clean" /\ pc' = "read" =>
       {c \in DOMAIN heap : heap'[c].gcmark /\ ~heap[c].gcmark}
         = {c \in Reach(heap, {Global}) : ~heap[c].gcmark}]_vars

(* C29: at every point of a run of reads, evaluations and collections, each
   cell the cell allocator has returned, that is every cell but the two
   environment cells, which come from mem_calloc, is on the heap registry
   exactly once for as long as it has not been freed, and no registry entry
   is a freed cell. *)
C29_RegistryInvariant ==
  /\ \A i, j \in DOMAIN registry : registry[i] = registry[j] => i = j
  /\ \A c \in DOMAIN heap \ {Global, Env} :
        c \notin freed => c \in Range(registry)
  /\ Range(registry) \cap freed = {}
  /\ Range(registry) \subseteq DOMAIN heap \ {Global, Env}

(* Two collections have run and the evaluation before the second one
   allocated cells, all of them registered. *)
C29_Witness ==
  /\ Cleaned
  /\ nforms >= 2
  /\ Len(heap) > evalStart
  /\ (evalStart + 1)..Len(heap) \subseteq Range(registry)

(* C30: nth with an Integer index i and a List or String of length n returns
   the element at position i when 0 <= i < n, the element at position n + i
   when -n <= i < 0, and nil for every other index, i = n included; it reads
   none but the n elements and the interpreter goes on to print. *)
C30_Nth ==
  \A k \in Calls("primop_nth") :
    LET e  == trace[k]
        a2 == e.argv[2]
        n  == IF heap[a2].type = S_STRING THEN Len(heap[a2].string)
              ELSE Len(e.lists0[2])
        j  == IF e.before[1] < 0 THEN n + e.before[1] ELSE e.before[1]
    IN  /\ Len(e.argv) = 2
        /\ heap[e.argv[1]].type = S_INTEGER
        /\ heap[a2].type \in {S_LIST, S_STRING}
        => /\ pc # "crashed"
           /\ e.nwild = 0
           /\ IF 0 <= j /\ j < n
              THEN IF heap[a2].type = S_LIST THEN e.v = e.lists0[2][j + 1]
                   ELSE /\ heap[e.v].type = S_STRING
                        /\ heap[e.v].string = <<heap[a2].string[j + 1]>>
              ELSE e.v = nil

====
